---- MODULE Spec2Model ----
\* Verification model of the route-weather service, src/server.js:
\* class RouteWeatherService (cache lookup, forward geocoding, the routing
\* cascade OSRM -> GraphHopper -> Mapbox, checkpoint interpolation, cache
\* insert) together with the route_cache table and the wall clock.
\*
\* Conventions of the model
\*   * An optional JS value (null / undefined / absent) is a sequence of
\*     length 0 or 1: <<>> is "no value", <<v>> is the value v.
\*   * A JS number that may be undefined or NaN is a record [t, n] with
\*     t in {"num", "undefined", "NaN", "null"}.
\*   * A text is a sequence of one-character strings.
\*   * Instants are milliseconds counted from an hour-aligned reference
\*     instant, so that truncation to the hour is floor division.
\*   * Every `await` of the code is a point where other requests may run:
\*     one action models the code from one await to the next.
EXTENDS Integers, Sequences, FiniteSets, TLC

VARIABLES
    now,              \* Date.now(): the wall clock, in ms
    route_cache,      \* rows of table route_cache, in rowid order
    pendingInserts,   \* INSERT statements handed to db.run, not yet executed
    GRAPHHOPPER_KEY,  \* TRUE iff process.env.GRAPHHOPPER_KEY is set
    MAPBOX_TOKEN,     \* TRUE iff process.env.MAPBOX_TOKEN is set
    req,              \* req[r]: the locals of the request running in slot r
    arrived           \* number of requests accepted so far

vars == <<now, route_cache, pendingInserts, GRAPHHOPPER_KEY, MAPBOX_TOKEN, req, arrived>>

----------------------------------------------------------------------------
\* Program constants

CHECKPOINT_INTERVAL == 3600
CACHE_TTL == 3600 * 1000
CITY_DELAY == 600
HourMs == 3600000
DayMs == 86400000
MinuteMs == 60000

\* Bounds of the model
MaxRequests == 3
MaxClock == 3601000

Reqs == {1, 2}

----------------------------------------------------------------------------
\* JS values

Undefined == [t |-> "undefined", n |-> 0]
NaN == [t |-> "NaN", n |-> 0]
JsNull == [t |-> "null", n |-> 0]
Num(n) == [t |-> "num", n |-> n]

\* `x || 0` on a number: undefined, null, NaN and 0 all give 0.
OrZero(x) == IF x.t = "num" THEN x.n ELSE 0

\* JSON.stringify followed by JSON.parse on a number-valued property:
\* an undefined property is dropped (and reads back as undefined), NaN is
\* written as null.
JsonNumber(x) == IF x.t = "NaN" THEN JsNull ELSE x

----------------------------------------------------------------------------
\* Texts: String.prototype.trim and toLowerCase

Whitespace == {" "}

ToLowerChar(c) ==
    CASE c = "S" -> "s"
      [] c = "P" -> "p"
      [] c = "R" -> "r"
      [] c = "J" -> "j"
      [] OTHER -> c

toLowerCase(s) == [i \in 1..Len(s) |-> ToLowerChar(s[i])]

RECURSIVE TrimStart(_)
TrimStart(s) ==
    IF s # <<>> /\ Head(s) \in Whitespace THEN TrimStart(Tail(s)) ELSE s

RECURSIVE TrimEnd(_)
TrimEnd(s) ==
    IF s # <<>> /\ s[Len(s)] \in Whitespace
    THEN TrimEnd(SubSeq(s, 1, Len(s) - 1))
    ELSE s

trim(s) == TrimEnd(TrimStart(s))

\* A normalization that strips the leading whitespace only.
NormalizeLeft(s) == toLowerCase(TrimStart(s))

\* originText.trim().toLowerCase()
Normalize(s) == toLowerCase(trim(s))

----------------------------------------------------------------------------
\* Dates. A date string is [given, valid, ms]: not given (absent, empty),
\* given and parsed by new Date() to the instant ms, or given and
\* unparsable (Invalid Date).

NoDate == [given |-> FALSE, valid |-> FALSE, ms |-> 0]
DateAt(ms) == [given |-> TRUE, valid |-> TRUE, ms |-> ms]
BadDate == [given |-> TRUE, valid |-> FALSE, ms |-> 0]

\* dateString ? new Date(dateString) : new Date()
NewDate(dateString, clock) ==
    IF dateString.given
    THEN [valid |-> dateString.valid, ms |-> dateString.ms]
    ELSE [valid |-> TRUE, ms |-> clock]

\* A key cut after the day: slice(0, 10).
IsoDayKey(ms) == <<ms \div DayMs, 0>>

\* date.toISOString().slice(0, 13): "YYYY-MM-DDTHH", the UTC day and hour.
IsoHourKey(ms) == <<ms \div DayMs, (ms % DayMs) \div HourMs>>

\* toLocaleTimeString('pt-BR', {day, month, hour, minute}): day, hour, minute.
FormatDayTime(ms) == <<ms \div DayMs, (ms % DayMs) \div HourMs, (ms % HourMs) \div MinuteMs>>

\* toLocaleTimeString('pt-BR', {hour, minute}): hour and minute only.
FormatTime(ms) == <<(ms % DayMs) \div HourMs, (ms % HourMs) \div MinuteMs>>

----------------------------------------------------------------------------
\* Weather codes: _translateWMO

KnownCodes == {0, 1, 2, 3, 45, 48, 51, 53, 55, 61, 63, 65, 80, 81, 95, 96}

\* A table whose label for code 0 is falsy, so that `||` falls through.
TranslateWMOZeroFalsy(code) ==
    IF code \in KnownCodes \ {0} THEN <<"table", code>> ELSE <<"Clima", code>>

\* table[code] || `Clima (${code})`: every label of the table is a
\* non-empty string, so the fallback is taken exactly for unknown codes.
_translateWMO(code) ==
    IF code \in KnownCodes THEN <<"table", code>> ELSE <<"Clima", code>>

----------------------------------------------------------------------------
\* Collaborator responses

\* A point of a route geometry is <<lng, lat>>; <<>> is a null element.
Rio == <<-43, -22>>
Resende == <<-44, -22>>
SaoPaulo == <<-46, -23>>
Hole == <<>>

\* A routing response: the request failed (timeout, network error,
\* non-2xx status), the body has no first route, or the body has a first
\* route with whatever fields the provider sent. duration is in the unit
\* the provider uses (seconds; GraphHopper's time is milliseconds).
\* geometry is <<>> when the route has no geometry object, otherwise
\* <<c>> with c the optional coordinates array.
HttpError == [kind |-> "error", duration |-> Undefined, distance |-> Undefined, geometry |-> <<>>]
NoRoute == [kind |-> "noroute", duration |-> Undefined, distance |-> Undefined, geometry |-> <<>>]
RouteBody(duration, distance, geometry) ==
    [kind |-> "route", duration |-> duration, distance |-> distance, geometry |-> geometry]

\* route.time / 1000
Div1000(x) == IF x.t = "num" THEN Num(x.n \div 1000) ELSE NaN

\* _getOSRMRoute: <<>> when it throws, <<routeData>> when it returns.
\* res.data.routes[0] missing throws; geometry missing throws a TypeError.
_getOSRMRoute(res) ==
    IF res.kind # "route" \/ res.geometry = <<>> THEN <<>>
    ELSE << [duration |-> res.duration, distance |-> res.distance,
             path |-> res.geometry[1], provider |-> "OSRM"] >>

\* _getGraphHopperRoute: paths[0] or points missing throws a TypeError.
_getGraphHopperRoute(res) ==
    IF res.kind # "route" \/ res.geometry = <<>> THEN <<>>
    ELSE << [duration |-> Div1000(res.duration), distance |-> res.distance,
             path |-> res.geometry[1], provider |-> "GraphHopper"] >>

\* _getMapboxRoute: routes[0] or geometry missing throws a TypeError.
_getMapboxRoute(res) ==
    IF res.kind # "route" \/ res.geometry = <<>> THEN <<>>
    ELSE << [duration |-> res.duration, distance |-> res.distance,
             path |-> res.geometry[1], provider |-> "Mapbox"] >>

\* _getCoordinates: null on a request error or an empty result list.
Place == [lat |-> -22, lng |-> -43]
_getCoordinates(res) == IF res = "found" THEN <<Place>> ELSE <<>>

\* _getWeather: the hourly values, or the placeholder on any error.
UnavailableWeather == [temp |-> "--", code |-> 0]
_getWeather(res) == IF res.ok THEN [temp |-> res.temp, code |-> res.code] ELSE UnavailableWeather

\* A city lookup without its catch: a failure leaves the name empty.
GetCityNameNoCatch(res) == res.name

\* _getCityName: "city, UF", or "Trajeto" on any error.
_getCityName(res) == IF res.ok THEN res.name ELSE "Trajeto"

----------------------------------------------------------------------------
\* The cache table

\* JSON.parse(JSON.stringify(finalResult))
JsonRoundTrip(data) ==
    [data EXCEPT !.distanceTotal = JsonNumber(@), !.durationTotal = JsonNumber(@)]

\* The row _saveToCache inserts; data is the stored JSON text, modelled by
\* the value it parses to.
CacheRow(origin, dest, dateKey, data, clock) ==
    [origin_text |-> origin, dest_text |-> dest, trip_date |-> dateKey,
     data |-> JsonRoundTrip(data), created_at |-> clock]

\* WHERE origin_text = ? AND dest_text = ? AND trip_date = ?
Matching(table, origin, dest, dateKey) ==
    {i \in 1..Len(table) :
        /\ table[i].origin_text = origin
        /\ table[i].dest_text = dest
        /\ table[i].trip_date = dateKey}

\* A lookup that forgets the trip_date column.
CheckCacheRowsAnyDate(table, origin, dest, dateKey) ==
    {i \in 1..Len(table) :
        table[i].origin_text = origin /\ table[i].dest_text = dest}

\* A lookup that forgets the origin_text column.
CheckCacheRowsAnyOrigin(table, origin, dest, dateKey) ==
    {i \in 1..Len(table) :
        table[i].dest_text = dest /\ table[i].trip_date = dateKey}

\* The rows db.get may hand to the callback of _checkCache: the statement
\* has no ORDER BY and no condition on created_at, so it is any matching row.
_checkCacheRows(table, origin, dest, dateKey) == Matching(table, origin, dest, dateKey)

----------------------------------------------------------------------------
\* The locals of one request (getRouteForecast and what it calls)

\* pc names the await the request is suspended at:
\*   "cache"        await this._checkCache(...)
\*   "geoOrigin"    await this._getCoordinates(originText)
\*   "geoDest"      await this._getCoordinates(destinationText)
\*   "osrm", "graphhopper", "mapbox"   await axios.get of that provider
\*   "weather"      await axios.get in _getWeather
\*   "cityDelay"    await setTimeout(600) in _getCityName
\*   "city"         await axios.get in _getCityName
\*   "done"         the request returned result[1]
\*   "failed"       the request threw error
\* History, not program state: calls is the log of the collaborator calls
\* the request has issued; attempts is the log of the cascade, one entry
\* per provider with outcome "ok" (it returned), "failed" (its call threw)
\* or "skipped" (not configured); hit is TRUE once the branch of line 69
\* is taken; futureDates[i] is the instant checkpoints[i].formattedTime
\* was formatted from; waited is the time, in ms, the request has spent
\* so far waiting for the timers of _getCityName, and reverseAt[i] is that
\* time when its i-th reverse geocoding call was issued; lookup is what the
\* callback of db.get was given: "row", "miss" (no row) or "error".
IdleReq ==
    [pc |-> "idle", originText |-> <<>>, destinationText |-> <<>>,
     normOrigin |-> <<>>, normDest |-> <<>>,
     departureDate |-> 0, departureIsoKey |-> <<0, 0>>,
     origin |-> <<>>, destination |-> <<>>, routeData |-> <<>>,
     checkpoints |-> <<>>, timeOffset |-> 0, weather |-> UnavailableWeather,
     futureDates |-> <<>>, calls |-> <<>>, attempts |-> <<>>, hit |-> FALSE,
     result |-> <<>>, error |-> "none", waited |-> 0, reverseAt |-> <<>>,
     lookup |-> "none"]

\* What a step of a request produces: its new locals and the INSERT
\* statements it handed to db.run.
Continue(rec) == [rec |-> rec, sql |-> <<>>]

\* A failure that stores an entry for its key before it is reported.
ThrowAfterSave(rec, error) ==
    [rec |-> [rec EXCEPT !.pc = "failed", !.error = error],
     sql |-> << CacheRow(rec.normOrigin, rec.normDest, rec.departureIsoKey,
                         [routeGeo |-> <<>>, checkpoints |-> <<>>, provider |-> "",
                          distanceTotal |-> Undefined, durationTotal |-> Undefined],
                         0) >>]

Throw(rec, error) == Continue([rec EXCEPT !.pc = "failed", !.error = error])

Call(rec, pc, name) == Continue([rec EXCEPT !.pc = pc, !.calls = Append(@, name)])

\* A getRouteForecast that returns finalResult without _saveToCache.
FinishUnsaved(rec, clock) ==
    LET routeData == rec.routeData[1]
        finalResult ==
            [routeGeo |-> routeData.path,
             checkpoints |-> rec.checkpoints,
             provider |-> routeData.provider,
             distanceTotal |-> routeData.distance,
             durationTotal |-> routeData.duration]
    IN [rec |-> [rec EXCEPT !.pc = "done", !.result = <<finalResult>>],
        sql |-> <<>>]

\* A getRouteForecast that stores only the results without a placeholder.
FinishSavingComplete(rec, clock) ==
    LET routeData == rec.routeData[1]
        finalResult ==
            [routeGeo |-> routeData.path,
             checkpoints |-> rec.checkpoints,
             provider |-> routeData.provider,
             distanceTotal |-> routeData.distance,
             durationTotal |-> routeData.duration]
        complete ==
            \A i \in 1..Len(rec.checkpoints) :
                /\ rec.checkpoints[i].weather.temp # "--"
                /\ rec.checkpoints[i].locationName \notin {"Trajeto", "Local de Partida"}
    IN [rec |-> [rec EXCEPT !.pc = "done", !.result = <<finalResult>>,
                            !.calls = Append(@, "db.run")],
        sql |-> IF complete
                THEN << CacheRow(rec.normOrigin, rec.normDest, rec.departureIsoKey,
                                 finalResult, clock) >>
                ELSE <<>>]

\* getRouteForecast, lines 82-91: assemble finalResult, _saveToCache, return.
Finish(rec, clock) ==
    LET routeData == rec.routeData[1]
        finalResult ==
            [routeGeo |-> routeData.path,
             checkpoints |-> rec.checkpoints,
             provider |-> routeData.provider,
             distanceTotal |-> routeData.distance,
             durationTotal |-> routeData.duration]
    IN [rec |-> [rec EXCEPT !.pc = "done", !.result = <<finalResult>>,
                            !.calls = Append(@, "db.run")],
        sql |-> << CacheRow(rec.normOrigin, rec.normDest, rec.departureIsoKey,
                            finalResult, clock) >>]

----------------------------------------------------------------------------
\* _processCheckpoints

\* An index that runs over half of the path only.
PathIndexHalfWay(timeOffset, totalDuration, length) ==
    IF totalDuration > 0
    THEN (timeOffset * (length - 1)) \div (2 * totalDuration)
    ELSE 0

\* Math.floor(progress * (pathPoints.length - 1)) with
\* progress = totalDuration > 0 ? timeOffset / totalDuration : 0, then
\* the two clamps. The product is taken before the division (exact
\* arithmetic).
PathIndex(timeOffset, totalDuration, length) ==
    LET raw == IF totalDuration > 0
               THEN (timeOffset * (length - 1)) \div totalDuration
               ELSE 0
    IN IF raw < 0 THEN 0
       ELSE IF raw >= length THEN length - 1
       ELSE raw

\* Math.floor((totalDistance * progress) / 1000), in exact arithmetic:
\* floor(d * t / (1000 * D)) = ((d div 1000) * t + ((d mod 1000) * t) div 1000) div D.
DistanceFromStart(totalDistance, timeOffset, totalDuration) ==
    IF totalDuration > 0
    THEN ((totalDistance \div 1000) * timeOffset
          + ((totalDistance % 1000) * timeOffset) \div 1000) \div totalDuration
    ELSE 0

SyntheticCheckpoint(departureTime) ==
    [formattedTime |-> FormatTime(departureTime),
     point |-> <<>>,
     locationName |-> "Local de Partida",
     distanceFromStart |-> 0,
     weather |-> [temp |-> "--", condition |-> <<"Dados indisponiveis", 0>>]]

\* A loop that issues the weather call and the city call of a checkpoint
\* together.
LoopHeadBothAtOnce(rec, clock) ==
    LET routeData == rec.routeData[1]
        totalDuration == OrZero(routeData.duration)
        pathPoints == routeData.path[1]
    IN IF rec.timeOffset <= totalDuration
       THEN LET pathIndex == PathIndex(rec.timeOffset, totalDuration, Len(pathPoints))
                point == pathPoints[pathIndex + 1]
            IN IF point = Hole
               THEN Finish(rec, clock)
               ELSE Call(Call(rec, "weather", "weather").rec, "weather", "reverse")
       ELSE Finish(rec, clock)

\* while (timeOffset <= totalDuration): lines 232-247, up to the await of
\* _getWeather; a missing point leaves the loop.
LoopHead(rec, clock) ==
    LET routeData == rec.routeData[1]
        totalDuration == OrZero(routeData.duration)
        pathPoints == routeData.path[1]
    IN IF rec.timeOffset <= totalDuration
       THEN LET pathIndex == PathIndex(rec.timeOffset, totalDuration, Len(pathPoints))
                point == pathPoints[pathIndex + 1]
            IN IF point = Hole
               THEN Finish(rec, clock)
               ELSE Call(rec, "weather", "weather")
       ELSE Finish(rec, clock)

\* _processCheckpoints, lines 215-231: the guard on the path, then the loop.
_processCheckpoints(rec, clock) ==
    LET routeData == rec.routeData[1]
    IN IF routeData.path = <<>> \/ routeData.path[1] = <<>>
       THEN Finish([rec EXCEPT
                       !.checkpoints = <<SyntheticCheckpoint(rec.departureDate)>>,
                       !.futureDates = <<rec.departureDate>>], clock)
       ELSE LoopHead([rec EXCEPT !.checkpoints = <<>>, !.futureDates = <<>>,
                                 !.timeOffset = 0], clock)

\* A loop that advances by half the interval.
PushAndAdvanceHalfSteps(rec, cityName, clock) ==
    LET routeData == rec.routeData[1]
        totalDuration == OrZero(routeData.duration)
        pathPoints == routeData.path[1]
        futureDate == rec.departureDate + rec.timeOffset * 1000
        pathIndex == PathIndex(rec.timeOffset, totalDuration, Len(pathPoints))
        checkpoint ==
            [formattedTime |-> FormatDayTime(futureDate),
             point |-> pathPoints[pathIndex + 1],
             locationName |-> cityName,
             distanceFromStart |->
                 DistanceFromStart(OrZero(routeData.distance), rec.timeOffset,
                                   totalDuration),
             weather |-> [temp |-> rec.weather.temp,
                          condition |-> _translateWMO(rec.weather.code)]]
        pushed == [rec EXCEPT !.checkpoints = Append(@, checkpoint),
                              !.futureDates = Append(@, futureDate)]
        stepped == rec.timeOffset + CHECKPOINT_INTERVAL \div 2
    IN IF rec.timeOffset >= totalDuration
       THEN Finish(pushed, clock)
       ELSE LoopHead([pushed EXCEPT !.timeOffset =
                         IF stepped > totalDuration THEN totalDuration ELSE stepped],
                     clock)

\* Lines 251-266: push the checkpoint, then leave the loop or advance.
PushAndAdvance(rec, cityName, clock) ==
    LET routeData == rec.routeData[1]
        totalDuration == OrZero(routeData.duration)
        totalDistance == OrZero(routeData.distance)
        pathPoints == routeData.path[1]
        futureDate == rec.departureDate + rec.timeOffset * 1000
        pathIndex == PathIndex(rec.timeOffset, totalDuration, Len(pathPoints))
        checkpoint ==
            [formattedTime |-> FormatDayTime(futureDate),
             point |-> pathPoints[pathIndex + 1],
             locationName |-> cityName,
             distanceFromStart |->
                 DistanceFromStart(totalDistance, rec.timeOffset, totalDuration),
             weather |-> [temp |-> rec.weather.temp,
                          condition |-> _translateWMO(rec.weather.code)]]
        pushed == [rec EXCEPT !.checkpoints = Append(@, checkpoint),
                              !.futureDates = Append(@, futureDate)]
        stepped == rec.timeOffset + CHECKPOINT_INTERVAL
        clamped == IF stepped > totalDuration
                      /\ stepped - CHECKPOINT_INTERVAL < totalDuration
                   THEN totalDuration
                   ELSE stepped
    IN IF rec.timeOffset >= totalDuration
       THEN Finish(pushed, clock)
       ELSE LoopHead([pushed EXCEPT !.timeOffset = clamped], clock)

----------------------------------------------------------------------------
\* _getRouteWithFallback

Attempt(rec, provider, outcome) ==
    [rec EXCEPT !.attempts = Append(@, [provider |-> provider, outcome |-> outcome])]

\* A cascade that gives up instead of trying Mapbox.
TryMapboxGiveUp(rec, token) ==
    Throw(Attempt(rec, "Mapbox", "skipped"), "RouteUnavailable")

\* A cascade that starts over with OSRM instead of trying Mapbox.
TryMapboxStartOver(rec, token) == Call(rec, "osrm", "OSRM")

\* Attempt 3 (lines 112-118): without a token the throw of line 113 is
\* caught by line 115, which throws the final error.
TryMapbox(rec, token) ==
    IF token THEN Call(rec, "mapbox", "Mapbox")
    ELSE Throw(Attempt(rec, "Mapbox", "skipped"), "RouteUnavailable")

\* A cascade that goes from OSRM straight to Mapbox.
TryGraphHopperNever(rec, key, token) ==
    IF token THEN Call(rec, "mapbox", "Mapbox")
    ELSE Throw(Attempt(rec, "Mapbox", "skipped"), "RouteUnavailable")

\* A cascade that calls GraphHopper whether or not it has a key.
TryGraphHopperUnkeyed(rec, key, token) == Call(rec, "graphhopper", "GraphHopper")

\* Attempt 2 (lines 104-109): without a key the throw of line 105 is
\* caught by line 107 and attempt 3 follows.
TryGraphHopper(rec, key, token) ==
    IF key THEN Call(rec, "graphhopper", "GraphHopper")
    ELSE TryMapbox(Attempt(rec, "GraphHopper", "skipped"), token)

\* A provider returned: _getRouteWithFallback returns its route (line 79)
\* and _processCheckpoints starts (line 80).
RouteResolved(rec, routeData, clock) ==
    _processCheckpoints(
        [Attempt(rec, routeData.provider, "ok") EXCEPT !.routeData = <<routeData>>],
        clock)

----------------------------------------------------------------------------
\* Actions

Apply(r, out) ==
    /\ req' = [req EXCEPT ![r] = out.rec]
    /\ pendingInserts' = pendingInserts \o out.sql

\* POST /api/forecast (lines 299-310) and getRouteForecast up to the await
\* of _checkCache (lines 63-68). An empty origin or destination is answered
\* 400 without calling the service; an unparsable date makes toISOString
\* throw a RangeError.
Request(r, originText, destinationText, dateString) ==
    /\ req[r].pc = "idle"
    /\ arrived < MaxRequests
    /\ arrived' = arrived + 1
    /\ LET departureDate == NewDate(dateString, now)
           rec == [IdleReq EXCEPT !.originText = originText,
                                  !.destinationText = destinationText]
       IN Apply(r,
            IF originText = <<>> \/ destinationText = <<>>
            THEN Throw(rec, "400")
            ELSE IF ~departureDate.valid
            THEN Throw([rec EXCEPT !.normOrigin = Normalize(originText),
                                   !.normDest = Normalize(destinationText)],
                       "RangeError")
            ELSE Call([rec EXCEPT !.normOrigin = Normalize(originText),
                                  !.normDest = Normalize(destinationText),
                                  !.departureDate = departureDate.ms,
                                  !.departureIsoKey = IsoHourKey(departureDate.ms)],
                      "cache", "db.get"))
    /\ UNCHANGED <<now, route_cache, GRAPHHOPPER_KEY, MAPBOX_TOKEN>>

\* The callback of db.get in _checkCache and lines 69-74: with a row and no
\* error the parsed data is returned; otherwise the request goes on to
\* geocode the origin.
CheckCacheDone(r) ==
    /\ req[r].pc = "cache"
    /\ \/ \E i \in _checkCacheRows(route_cache, req[r].normOrigin, req[r].normDest,
                                   req[r].departureIsoKey) :
            Apply(r, Continue([req[r] EXCEPT !.pc = "done", !.hit = TRUE,
                                             !.lookup = "row",
                                             !.result = <<route_cache[i].data>>]))
       \/ /\ _checkCacheRows(route_cache, req[r].normOrigin, req[r].normDest,
                             req[r].departureIsoKey) = {}
          /\ Apply(r, Call([req[r] EXCEPT !.lookup = "miss"], "geoOrigin", "forward"))
    /\ UNCHANGED <<now, route_cache, GRAPHHOPPER_KEY, MAPBOX_TOKEN, arrived>>

\* A lookup whose error is thrown to the caller.
CheckCacheErrorThrown(r) ==
    /\ req[r].pc = "cache"
    /\ Apply(r, Throw([req[r] EXCEPT !.lookup = "error"], "SQLITE_ERROR"))
    /\ UNCHANGED <<now, route_cache, GRAPHHOPPER_KEY, MAPBOX_TOKEN, arrived>>

\* db.get reports an error, whatever the table holds: err is set, so line
\* 286 is skipped and _checkCache resolves null.
CheckCacheError(r) ==
    /\ req[r].pc = "cache"
    /\ Apply(r, Call([req[r] EXCEPT !.lookup = "error"], "geoOrigin", "forward"))
    /\ UNCHANGED <<now, route_cache, GRAPHHOPPER_KEY, MAPBOX_TOKEN, arrived>>

\* Line 74 returns; line 75 calls _getCoordinates(destinationText).
GeocodeOriginDone(r, res) ==
    /\ req[r].pc = "geoOrigin"
    /\ Apply(r, Call([req[r] EXCEPT !.origin = _getCoordinates(res)],
                     "geoDest", "forward"))
    /\ UNCHANGED <<now, route_cache, GRAPHHOPPER_KEY, MAPBOX_TOKEN, arrived>>

\* A line 77 that tests the destination only.
GeocodeDestDoneUnchecked(r, res) ==
    /\ req[r].pc = "geoDest"
    /\ LET rec == [req[r] EXCEPT !.destination = _getCoordinates(res)]
       IN Apply(r, IF rec.destination = <<>>
                   THEN Throw(rec, "LocationNotFound")
                   ELSE Call(rec, "osrm", "OSRM"))
    /\ UNCHANGED <<now, route_cache, GRAPHHOPPER_KEY, MAPBOX_TOKEN, arrived>>

\* Line 75 returns; line 77 throws if a coordinate is missing, otherwise
\* _getRouteWithFallback starts with OSRM.
GeocodeDestDone(r, res) ==
    /\ req[r].pc = "geoDest"
    /\ LET rec == [req[r] EXCEPT !.destination = _getCoordinates(res)]
       IN Apply(r, IF rec.origin = <<>> \/ rec.destination = <<>>
                   THEN Throw(rec, "LocationNotFound")
                   ELSE Call(rec, "osrm", "OSRM"))
    /\ UNCHANGED <<now, route_cache, GRAPHHOPPER_KEY, MAPBOX_TOKEN, arrived>>

\* Attempt 1 (lines 96-101).
OSRMDone(r, res) ==
    /\ req[r].pc = "osrm"
    /\ LET route == _getOSRMRoute(res)
       IN Apply(r, IF route # <<>>
                   THEN RouteResolved(req[r], route[1], now)
                   ELSE TryGraphHopper(Attempt(req[r], "OSRM", "failed"),
                                       GRAPHHOPPER_KEY, MAPBOX_TOKEN))
    /\ UNCHANGED <<now, route_cache, GRAPHHOPPER_KEY, MAPBOX_TOKEN, arrived>>

\* Attempt 2 (lines 104-109).
GraphHopperDone(r, res) ==
    /\ req[r].pc = "graphhopper"
    /\ LET route == _getGraphHopperRoute(res)
       IN Apply(r, IF route # <<>>
                   THEN RouteResolved(req[r], route[1], now)
                   ELSE TryMapbox(Attempt(req[r], "GraphHopper", "failed"), MAPBOX_TOKEN))
    /\ UNCHANGED <<now, route_cache, GRAPHHOPPER_KEY, MAPBOX_TOKEN, arrived>>

\* Attempt 3 (lines 112-118).
MapboxDone(r, res) ==
    /\ req[r].pc = "mapbox"
    /\ LET route == _getMapboxRoute(res)
       IN Apply(r, IF route # <<>>
                   THEN RouteResolved(req[r], route[1], now)
                   ELSE Throw(Attempt(req[r], "Mapbox", "failed"), "RouteUnavailable"))
    /\ UNCHANGED <<now, route_cache, GRAPHHOPPER_KEY, MAPBOX_TOKEN, arrived>>

\* Line 247 returns; line 248 calls _getCityName, which first waits 600 ms.
WeatherDone(r, res) ==
    /\ req[r].pc = "weather"
    /\ Apply(r, Continue([req[r] EXCEPT !.pc = "cityDelay", !.weather = _getWeather(res)]))
    /\ UNCHANGED <<now, route_cache, GRAPHHOPPER_KEY, MAPBOX_TOKEN, arrived>>

\* A timer that fires at once.
CityDelayDoneAtOnce(r) ==
    /\ req[r].pc = "cityDelay"
    /\ Apply(r, Call([req[r] EXCEPT !.reverseAt = Append(@, req[r].waited)],
                     "city", "reverse"))
    /\ UNCHANGED <<now, route_cache, GRAPHHOPPER_KEY, MAPBOX_TOKEN, arrived>>

\* The timer of line 191 fires, 600 ms after it was set or later; line 193
\* issues the reverse geocoding call. The wall clock of the model does not
\* resolve the 600 ms (it moves in steps of Tick); the wait is counted in
\* the request.
CityDelayDone(r) ==
    /\ req[r].pc = "cityDelay"
    /\ Apply(r, Call([req[r] EXCEPT !.waited = @ + CITY_DELAY,
                                    !.reverseAt = Append(@, req[r].waited + CITY_DELAY)],
                     "city", "reverse"))
    /\ UNCHANGED <<now, route_cache, GRAPHHOPPER_KEY, MAPBOX_TOKEN, arrived>>

\* Line 248 returns; the checkpoint is pushed and the loop goes on.
CityNameDone(r, res) ==
    /\ req[r].pc = "city"
    /\ Apply(r, PushAndAdvance(req[r], _getCityName(res), now))
    /\ UNCHANGED <<now, route_cache, GRAPHHOPPER_KEY, MAPBOX_TOKEN, arrived>>

\* An INSERT that replaces the rows of its key instead of adding one.
DbRunReplace(i) ==
    /\ i \in 1..Len(pendingInserts)
    /\ route_cache' =
           Append(SelectSeq(route_cache,
                            LAMBDA row : \/ row.origin_text # pendingInserts[i].origin_text
                                         \/ row.dest_text # pendingInserts[i].dest_text
                                         \/ row.trip_date # pendingInserts[i].trip_date),
                  pendingInserts[i])
    /\ pendingInserts' = [j \in 1..(Len(pendingInserts) - 1) |->
                             IF j < i THEN pendingInserts[j] ELSE pendingInserts[j + 1]]
    /\ UNCHANGED <<now, GRAPHHOPPER_KEY, MAPBOX_TOKEN, req, arrived>>

\* An INSERT that writes its row without the checkpoints.
DbRunInsertPartial(i) ==
    /\ i \in 1..Len(pendingInserts)
    /\ route_cache' = Append(route_cache,
                             [pendingInserts[i] EXCEPT !.data.checkpoints = <<>>])
    /\ pendingInserts' = [j \in 1..(Len(pendingInserts) - 1) |->
                             IF j < i THEN pendingInserts[j] ELSE pendingInserts[j + 1]]
    /\ UNCHANGED <<now, GRAPHHOPPER_KEY, MAPBOX_TOKEN, req, arrived>>

\* sqlite executes one of the INSERT statements handed to db.run. The
\* database runs statements in parallel mode: not necessarily in the order
\* they were submitted.
DbRunInsert(i) ==
    /\ i \in 1..Len(pendingInserts)
    /\ route_cache' = Append(route_cache, pendingInserts[i])
    /\ pendingInserts' = [j \in 1..(Len(pendingInserts) - 1) |->
                             IF j < i THEN pendingInserts[j] ELSE pendingInserts[j + 1]]
    /\ UNCHANGED <<now, GRAPHHOPPER_KEY, MAPBOX_TOKEN, req, arrived>>

\* The requests after the process has ended: one that has returned has had
\* its response written (res.json follows the return in the same turn of
\* the event loop); one that was suspended at an await is lost.
ProcessExit(rec) ==
    IF rec.pc \in {"idle", "done", "failed"} THEN rec ELSE Throw(rec, "ProcessExit").rec

\* A db.run whose error is thrown into the requests that have returned.
DbRunErrorThrown(i, exits) ==
    /\ i \in 1..Len(pendingInserts)
    /\ pendingInserts' = [j \in 1..(Len(pendingInserts) - 1) |->
                             IF j < i THEN pendingInserts[j] ELSE pendingInserts[j + 1]]
    /\ req' = [r \in Reqs |->
                  IF req[r].pc = "done" THEN Throw(req[r], "SQLITE_ERROR").rec ELSE req[r]]
    /\ UNCHANGED <<now, route_cache, GRAPHHOPPER_KEY, MAPBOX_TOKEN, arrived>>

\* sqlite fails to execute one of the INSERT statements (database locked,
\* disk full, read-only file). db.run was given no callback (line 292), so
\* no code of the service sees the error: the statement is gone and no row
\* is written. The library then emits an 'error' event, for which
\* server.js registers no listener: either nothing more happens or the
\* event ends the process (exits), which loses the statements still
\* pending and the requests in flight; the table is a file and survives.
DbRunError(i, exits) ==
    /\ i \in 1..Len(pendingInserts)
    /\ IF exits
       THEN /\ pendingInserts' = <<>>
            /\ req' = [r \in Reqs |-> ProcessExit(req[r])]
       ELSE /\ pendingInserts' = [j \in 1..(Len(pendingInserts) - 1) |->
                                     IF j < i THEN pendingInserts[j]
                                     ELSE pendingInserts[j + 1]]
            /\ req' = req
    /\ UNCHANGED <<now, route_cache, GRAPHHOPPER_KEY, MAPBOX_TOKEN, arrived>>

\* The response has been sent (res.json or res.status(500)): the slot is free.
Respond(r) ==
    /\ req[r].pc \in {"done", "failed"}
    /\ arrived < MaxRequests
    /\ req' = [req EXCEPT ![r] = IdleReq]
    /\ UNCHANGED <<now, route_cache, pendingInserts, GRAPHHOPPER_KEY, MAPBOX_TOKEN, arrived>>

\* Time passes.
Tick(d) ==
    /\ now + d <= MaxClock
    /\ now' = now + d
    /\ UNCHANGED <<route_cache, pendingInserts, GRAPHHOPPER_KEY, MAPBOX_TOKEN, req, arrived>>

----------------------------------------------------------------------------
\* Inputs

Geometry(points) == << <<points>> >>
GeometryWithoutCoordinates == << <<>> >>

FailedWeather == [ok |-> FALSE, temp |-> "--", code |-> 0]
FailedCity == [ok |-> FALSE, name |-> ""]

OriginTexts == { <<" ", "S", "p">> }
DestinationTexts == { <<"r", "j">> }
DateStrings == { NoDate, DateAt(0) }
ClockSteps == { CACHE_TTL + 1000 }
GeoResponses == { "found", "empty" }
RouteResponses ==
    { HttpError, NoRoute, RouteBody(Num(1800), Num(90000), <<>>),
      RouteBody(Num(1800), Num(90000), Geometry(<<Rio, SaoPaulo>>)) }
GraphHopperResponses ==
    { HttpError, NoRoute, RouteBody(Num(1800000), Num(90000), Geometry(<<Rio, SaoPaulo>>)) }
WeatherResponses == { FailedWeather, [ok |-> TRUE, temp |-> "21", code |-> 61] }
CityResponses == { FailedCity, [ok |-> TRUE, name |-> "Resende, RJ"] }

----------------------------------------------------------------------------
\* The service after construction: an empty table, the keys as the
\* environment gives them.

Init ==
    /\ now = 0
    /\ route_cache = <<>>
    /\ pendingInserts = <<>>
    /\ GRAPHHOPPER_KEY \in BOOLEAN
    /\ MAPBOX_TOKEN \in BOOLEAN
    /\ req = [r \in Reqs |-> IdleReq]
    /\ arrived = 0

\* One request through the whole pipeline, with every outcome of every
\* collaborator.
Next ==
    \/ \E o \in OriginTexts, d \in DestinationTexts, ds \in DateStrings :
            arrived = 0 /\ Request(1, o, d, ds)
    \/ CheckCacheDone(1)
    \/ CheckCacheError(1)
    \/ \E res \in GeoResponses : GeocodeOriginDone(1, res)
    \/ \E res \in GeoResponses : GeocodeDestDone(1, res)
    \/ \E res \in RouteResponses : OSRMDone(1, res)
    \/ \E res \in GraphHopperResponses : GraphHopperDone(1, res)
    \/ \E res \in RouteResponses : MapboxDone(1, res)
    \/ \E res \in WeatherResponses : WeatherDone(1, res)
    \/ CityDelayDone(1)
    \/ \E res \in CityResponses : CityNameDone(1, res)
    \/ \E i \in 1..Len(pendingInserts) : DbRunInsert(i)
    \/ \E d \in ClockSteps : Tick(d)

Spec == Init /\ [][Next]_vars

----------------------------------------------------------------------------
\* The cache over several requests, on a server without routing keys, so
\* that OSRM is the only provider.

CacheWeatherResponses == { FailedWeather, [ok |-> TRUE, temp |-> "21", code |-> 61] }
CacheCityResponses == { [ok |-> TRUE, name |-> "Resende, RJ"] }
CacheRouteResponses ==
    { HttpError, RouteBody(Num(0), Num(0), Geometry(<<Rio>>)) }

InitCache ==
    /\ Init
    /\ ~GRAPHHOPPER_KEY
    /\ ~MAPBOX_TOKEN

NextCache ==
    \/ \E r \in Reqs, o \in OriginTexts, d \in DestinationTexts, ds \in DateStrings :
            Request(r, o, d, ds)
    \/ \E r \in Reqs : CheckCacheDone(r)
    \/ \E r \in Reqs : CheckCacheError(r)
    \/ \E r \in Reqs, res \in GeoResponses : GeocodeOriginDone(r, res)
    \/ \E r \in Reqs, res \in GeoResponses : GeocodeDestDone(r, res)
    \/ \E r \in Reqs, res \in CacheRouteResponses : OSRMDone(r, res)
    \/ \E r \in Reqs, res \in CacheWeatherResponses : WeatherDone(r, res)
    \/ \E r \in Reqs : CityDelayDone(r)
    \/ \E r \in Reqs, res \in CacheCityResponses : CityNameDone(r, res)
    \/ \E i \in 1..Len(pendingInserts) : DbRunInsert(i)
    \/ \E r \in Reqs : Respond(r)
    \/ \E d \in ClockSteps : Tick(d)

SpecCache == InitCache /\ [][NextCache]_vars

\* The same, on a store whose lookups never fail.
NextReuse ==
    \/ \E r \in Reqs, o \in OriginTexts, d \in DestinationTexts, ds \in DateStrings :
            Request(r, o, d, ds)
    \/ \E r \in Reqs : CheckCacheDone(r)
    \/ \E r \in Reqs, res \in GeoResponses : GeocodeOriginDone(r, res)
    \/ \E r \in Reqs, res \in GeoResponses : GeocodeDestDone(r, res)
    \/ \E r \in Reqs, res \in CacheRouteResponses : OSRMDone(r, res)
    \/ \E r \in Reqs, res \in CacheWeatherResponses : WeatherDone(r, res)
    \/ \E r \in Reqs : CityDelayDone(r)
    \/ \E r \in Reqs, res \in CacheCityResponses : CityNameDone(r, res)
    \/ \E i \in 1..Len(pendingInserts) : DbRunInsert(i)
    \/ \E r \in Reqs : Respond(r)
    \/ \E d \in ClockSteps : Tick(d)

SpecReuse == InitCache /\ [][NextReuse]_vars

\* The same, with requests of several keys: two origins, and departures
\* in the hour of the call or in a fixed hour.
FrameOriginTexts == { <<" ", "S", "p">>, <<"r", "j">> }

FrameGeoResponses == { "found" }
FrameWeatherResponses == { [ok |-> TRUE, temp |-> "21", code |-> 61] }

NextFrame ==
    \/ \E r \in Reqs, o \in FrameOriginTexts, d \in DestinationTexts, ds \in DateStrings :
            Request(r, o, d, ds)
    \/ \E r \in Reqs : CheckCacheDone(r)
    \/ \E r \in Reqs, res \in FrameGeoResponses : GeocodeOriginDone(r, res)
    \/ \E r \in Reqs, res \in FrameGeoResponses : GeocodeDestDone(r, res)
    \/ \E r \in Reqs, res \in CacheRouteResponses : OSRMDone(r, res)
    \/ \E r \in Reqs, res \in FrameWeatherResponses : WeatherDone(r, res)
    \/ \E r \in Reqs : CityDelayDone(r)
    \/ \E r \in Reqs, res \in CacheCityResponses : CityNameDone(r, res)
    \/ \E i \in 1..Len(pendingInserts) : DbRunInsert(i)
    \/ \E r \in Reqs : Respond(r)
    \/ \E d \in ClockSteps : Tick(d)

SpecFrame == InitCache /\ [][NextFrame]_vars

\* Requests of one key whose enrichment calls may fail and whose route may
\* have an empty path: the results with placeholders and the result of the
\* synthetic checkpoint, computed, stored and looked up. The clock stands
\* still: the lookup does not read it.
DegradedRouteResponses ==
    { RouteBody(Num(0), Num(0), Geometry(<<>>)),
      RouteBody(Num(0), Num(0), Geometry(<<Rio>>)) }

NextDegraded ==
    \/ \E r \in Reqs, o \in OriginTexts, d \in DestinationTexts, ds \in DateStrings :
            Request(r, o, d, ds)
    \/ \E r \in Reqs : CheckCacheDone(r)
    \/ \E r \in Reqs, res \in FrameGeoResponses : GeocodeOriginDone(r, res)
    \/ \E r \in Reqs, res \in FrameGeoResponses : GeocodeDestDone(r, res)
    \/ \E r \in Reqs, res \in DegradedRouteResponses : OSRMDone(r, res)
    \/ \E r \in Reqs, res \in WeatherResponses : WeatherDone(r, res)
    \/ \E r \in Reqs : CityDelayDone(r)
    \/ \E r \in Reqs, res \in CityResponses : CityNameDone(r, res)
    \/ \E i \in 1..Len(pendingInserts) : DbRunInsert(i)
    \/ \E r \in Reqs : Respond(r)

SpecDegraded == InitCache /\ [][NextDegraded]_vars

\* The same, with INSERT statements that fail.
NextStore ==
    \/ NextCache
    \/ \E i \in 1..Len(pendingInserts), exits \in BOOLEAN : DbRunError(i, exits)

SpecStore == InitCache /\ [][NextStore]_vars

----------------------------------------------------------------------------
\* One request, with the progress the code guarantees. A call made with a
\* timeout (forward geocoding, line 171: 5000 ms; the routing providers,
\* lines 123, 135, 147: 8000 ms) settles even when the collaborator stays
\* silent, since its timer rejects it; the callback of db.get and the
\* timer of line 191 fire. The calls of lines 193 and 206 are made without
\* a timeout (axios waits without limit by default): they settle only if
\* the collaborator answers or the connection fails, so nothing forces
\* WeatherDone or CityNameDone to happen.

BoundedCall ==
    \/ CheckCacheDone(1)
    \/ CheckCacheError(1)
    \/ \E res \in GeoResponses : GeocodeOriginDone(1, res)
    \/ \E res \in GeoResponses : GeocodeDestDone(1, res)
    \/ \E res \in RouteResponses : OSRMDone(1, res)
    \/ \E res \in GraphHopperResponses : GraphHopperDone(1, res)
    \/ \E res \in RouteResponses : MapboxDone(1, res)
    \/ CityDelayDone(1)

SpecLive == Init /\ [][Next]_vars /\ WF_vars(BoundedCall)

----------------------------------------------------------------------------
\* The checkpoint interpolator over the routes a provider can return: with
\* and without duration and distance, with durations below, at and above
\* zero and the interval, with a missing, an empty and a holed path.

InterpDateStrings == { DateAt(0), DateAt(HourMs \div 2) }
InterpGeoResponses == { "found" }
InterpDurations ==
    { Undefined, Num(-3600), Num(0), Num(1), Num(3600), Num(3601), Num(5400), Num(7200) }
InterpDistances == { Undefined, Num(90500) }
InterpGeometries ==
    { GeometryWithoutCoordinates, Geometry(<<>>), Geometry(<<Rio>>),
      Geometry(<<Rio, Resende, SaoPaulo>>), Geometry(<<Hole>>),
      Geometry(<<Rio, Hole, SaoPaulo>>) }
InterpRouteResponses ==
    { HttpError }
    \cup { RouteBody(duration, distance, geometry) :
              duration \in InterpDurations, distance \in InterpDistances,
              geometry \in InterpGeometries }
InterpGraphHopperResponses ==
    { HttpError,
      RouteBody(Undefined, Num(90500), Geometry(<<Rio, SaoPaulo>>)),
      RouteBody(Num(5400000), Num(90500), Geometry(<<Rio, SaoPaulo>>)) }

InitInterp ==
    /\ Init
    /\ GRAPHHOPPER_KEY
    /\ ~MAPBOX_TOKEN

NextInterp ==
    \/ \E o \in OriginTexts, d \in DestinationTexts, ds \in InterpDateStrings :
            arrived = 0 /\ Request(1, o, d, ds)
    \/ CheckCacheDone(1)
    \/ \E res \in InterpGeoResponses : GeocodeOriginDone(1, res)
    \/ \E res \in InterpGeoResponses : GeocodeDestDone(1, res)
    \/ \E res \in InterpRouteResponses : OSRMDone(1, res)
    \/ \E res \in InterpGraphHopperResponses : GraphHopperDone(1, res)
    \/ \E res \in WeatherResponses : WeatherDone(1, res)
    \/ CityDelayDone(1)
    \/ \E res \in CityResponses : CityNameDone(1, res)
    \/ \E i \in 1..Len(pendingInserts) : DbRunInsert(i)

SpecInterp == InitInterp /\ [][NextInterp]_vars

----------------------------------------------------------------------------
\* The same, with every enrichment call of a checkpoint returning and its
\* timer firing.
EnrichmentReturns ==
    \/ \E res \in WeatherResponses : WeatherDone(1, res)
    \/ CityDelayDone(1)
    \/ \E res \in CityResponses : CityNameDone(1, res)

SpecInterpLive == InitInterp /\ [][NextInterp]_vars /\ WF_vars(EnrichmentReturns)

----------------------------------------------------------------------------

\* The request normalizer alone: two requests with texts that differ in
\* case, in surrounding and inner whitespace, and with departure times in
\* the same hour, in other hours and on other days.

KeyOriginTexts ==
    { <<"S", "P">>, <<" ", "s", "p", " ">>, <<"s", " ", "p">>, <<"r", "j">>, <<" ">> }
KeyDestinationTexts == { <<"R", "J">>, <<"r", "j", " ">>, <<"s", "p">> }
KeyDateStrings ==
    { NoDate, BadDate, DateAt(0), DateAt(HourMs \div 2), DateAt(HourMs),
      DateAt(DayMs), DateAt(DayMs + HourMs) }

NextKey ==
    \/ \E r \in Reqs, o \in KeyOriginTexts, d \in KeyDestinationTexts,
          ds \in KeyDateStrings :
            Request(r, o, d, ds)
    \/ \E d \in ClockSteps : Tick(d)

SpecKey == Init /\ [][NextKey]_vars

----------------------------------------------------------------------------
\* The weather codes: one request over a one-hour route, with every code of
\* the table and codes outside it in the answers of the weather service.

WMOCodes == KnownCodes \cup {-1, 4, 50, 97, 99, 100}
WMOWeatherResponses ==
    { FailedWeather } \cup { [ok |-> TRUE, temp |-> "21", code |-> code] : code \in WMOCodes }
WMORouteResponses == { RouteBody(Num(3600), Num(90500), Geometry(<<Rio, SaoPaulo>>)) }

NextWMO ==
    \/ \E o \in OriginTexts, d \in DestinationTexts, ds \in InterpDateStrings :
            arrived = 0 /\ Request(1, o, d, ds)
    \/ CheckCacheDone(1)
    \/ \E res \in InterpGeoResponses : GeocodeOriginDone(1, res)
    \/ \E res \in InterpGeoResponses : GeocodeDestDone(1, res)
    \/ \E res \in WMORouteResponses : OSRMDone(1, res)
    \/ \E res \in WMOWeatherResponses : WeatherDone(1, res)
    \/ CityDelayDone(1)
    \/ \E res \in CityResponses : CityNameDone(1, res)
    \/ \E i \in 1..Len(pendingInserts) : DbRunInsert(i)

SpecWMO == InitInterp /\ [][NextWMO]_vars

----------------------------------------------------------------------------
\* Claims about the cache key (SpecKey)

\* The text without its leading and trailing whitespace, in lower case.
TrimmedLower(s) ==
    LET inked == {i \in 1..Len(s) : s[i] \notin Whitespace}
    IN IF inked = {} THEN <<>>
       ELSE LET first == CHOOSE i \in inked : \A j \in inked : i <= j
                last == CHOOSE i \in inked : \A j \in inked : j <= i
            IN [k \in 1..(last - first + 1) |-> ToLowerChar(s[first + k - 1])]

NoPayload ==
    [routeGeo |-> <<>>, checkpoints |-> <<>>, provider |-> "",
     distanceTotal |-> Undefined, durationTotal |-> Undefined]

\* The lookup of request r1 selects the row request r2 would insert.
SameCacheKey(r1, r2) ==
    Matching(<<CacheRow(req[r2].normOrigin, req[r2].normDest,
                        req[r2].departureIsoKey, NoPayload, now)>>,
             req[r1].normOrigin, req[r1].normDest, req[r1].departureIsoKey) # {}

----------------------------------------------------------------------------
\* Claims about the cache (SpecCache)

KeyRows(r) ==
    Matching(route_cache, req[r].normOrigin, req[r].normDest, req[r].departureIsoKey)

\* The step in which request r is served from the cache.
HitStep(r) == req[r].pc = "cache" /\ req'[r].hit

\* C1: a lookup is a miss whenever the entry it would return is one hour
\* old or older: a request is served from the cache only with the data of
\* an entry of its key with now - created_at < CACHE_TTL.
C1_ExpiredEntryIsMiss ==
    [][\A r \in Reqs :
          HitStep(r) =>
              \E i \in KeyRows(r) :
                  /\ req'[r].result = <<route_cache[i].data>>
                  /\ now - route_cache[i].created_at < CACHE_TTL]_vars

\* C2: with several entries for one key, a lookup returns the data of the
\* entry with the greatest created_at.
C2_NewestEntryWins ==
    [][\A r \in Reqs :
          HitStep(r) =>
              \E i \in KeyRows(r) :
                  /\ req'[r].result = <<route_cache[i].data>>
                  /\ \A j \in KeyRows(r) :
                         route_cache[j].created_at <= route_cache[i].created_at]_vars

\* C3: a request served from the cache returns the data of an entry stored
\* under its own key, and has called nothing but the lookup: no geocoding,
\* no routing provider, no weather or reverse geocoding, no insert.
C3_HitReturnsStoredPayload ==
    \A r \in Reqs :
        req[r].hit =>
            /\ req[r].pc = "done"
            /\ \E i \in KeyRows(r) : req[r].result = <<route_cache[i].data>>
            /\ req[r].calls = <<"db.get">>
            /\ req[r].attempts = <<>>
            /\ req[r].checkpoints = <<>>

\* A request was served from the cache while an entry of another key with
\* other data was in the table.
C3_Witness ==
    \E r \in Reqs :
        /\ req[r].hit
        /\ \E i \in 1..Len(route_cache) :
               /\ i \notin KeyRows(r)
               /\ req[r].result # <<route_cache[i].data>>

----------------------------------------------------------------------------
\* Claims about geocoding and the routing cascade (Spec)

ProviderOrder == <<"OSRM", "GraphHopper", "Mapbox">>
Providers == {"OSRM", "GraphHopper", "Mapbox"}

IsProvider(call) == call \in Providers
IsInvoked(attempt) == attempt.outcome # "skipped"

\* The providers request r has called, in the order of the calls.
Invoked(r) == SelectSeq(req[r].calls, IsProvider)

\* The providers whose call has returned or thrown.
Settled(r) ==
    LET a == SelectSeq(req[r].attempts, IsInvoked)
    IN [k \in 1..Len(a) |-> a[k].provider]

\* The provider request r is waiting for.
Awaited(r) ==
    CASE req[r].pc = "osrm" -> <<"OSRM">>
      [] req[r].pc = "graphhopper" -> <<"GraphHopper">>
      [] req[r].pc = "mapbox" -> <<"Mapbox">>
      [] OTHER -> <<>>

\* C5: the cascade takes the providers in the order OSRM, GraphHopper,
\* Mapbox; a provider is attempted only when every one before it has
\* failed or been skipped; the route carries the name of the first
\* provider that succeeded, and nothing is called after a success.
C5_CascadeOrder ==
    \A r \in Reqs :
        LET a == req[r].attempts
        IN /\ Len(a) <= 3
           /\ \A k \in 1..Len(a) : a[k].provider = ProviderOrder[k]
           /\ \A k \in 1..(Len(a) - 1) : a[k].outcome \in {"failed", "skipped"}
           /\ Invoked(r) = Settled(r) \o Awaited(r)
           /\ Awaited(r) # <<>> =>
                 /\ Awaited(r)[1] = ProviderOrder[Len(a) + 1]
                 /\ \A k \in 1..Len(a) : a[k].outcome \in {"failed", "skipped"}
           /\ req[r].routeData # <<>> =>
                 /\ a # <<>>
                 /\ a[Len(a)].outcome = "ok"
                 /\ req[r].routeData[1].provider = a[Len(a)].provider
                 /\ Awaited(r) = <<>>
           /\ (req[r].pc = "done" /\ ~req[r].hit) =>
                 req[r].result[1].provider = a[Len(a)].provider

\* OSRM failed, GraphHopper succeeded: the result names GraphHopper and
\* Mapbox, though configured, was never called.
C5_Witness ==
    \E r \in Reqs :
        /\ req[r].pc = "done"
        /\ MAPBOX_TOKEN
        /\ req[r].attempts = << [provider |-> "OSRM", outcome |-> "failed"],
                                [provider |-> "GraphHopper", outcome |-> "ok"] >>
        /\ req[r].result[1].provider = "GraphHopper"
        /\ Invoked(r) = <<"OSRM", "GraphHopper">>

Configured ==
    {"OSRM"} \cup (IF GRAPHHOPPER_KEY THEN {"GraphHopper"} ELSE {})
             \cup (IF MAPBOX_TOKEN THEN {"Mapbox"} ELSE {})

HasFailed(r, p) ==
    \E k \in 1..Len(req[r].attempts) :
        req[r].attempts[k] = [provider |-> p, outcome |-> "failed"]

HasSucceeded(r) ==
    \E k \in 1..Len(req[r].attempts) : req[r].attempts[k].outcome = "ok"

\* C6: the cascade fails with RouteUnavailable exactly when every
\* configured provider has failed; when a provider succeeds, the failures
\* of the providers before it do not surface.
C6_UnavailableIffAllFail ==
    \A r \in Reqs :
        /\ (req[r].error = "RouteUnavailable") <=> (\A p \in Configured : HasFailed(r, p))
        /\ HasSucceeded(r) => req[r].error = "none"

\* All three providers are configured and all three failed.
C6_Witness ==
    \E r \in Reqs :
        /\ req[r].error = "RouteUnavailable"
        /\ Configured = Providers
        /\ \A p \in Providers : HasFailed(r, p)

\* Both forward geocoding calls of request r have returned.
Geocoded(r) ==
    /\ Len(SelectSeq(req[r].calls, LAMBDA c : c = "forward")) = 2
    /\ req[r].pc # "geoDest"

\* C7: on a miss, when the geocoding of the origin or of the destination
\* gives no coordinate the request fails with LocationNotFound and no
\* routing provider is called; it fails so for no other reason.
C7_LocationNotFound ==
    \A r \in Reqs :
        /\ (Geocoded(r) /\ (req[r].origin = <<>> \/ req[r].destination = <<>>)) =>
              /\ req[r].pc = "failed"
              /\ req[r].error = "LocationNotFound"
              /\ req[r].attempts = <<>>
              /\ Invoked(r) = <<>>
        /\ req[r].error = "LocationNotFound" =>
              (Geocoded(r) /\ (req[r].origin = <<>> \/ req[r].destination = <<>>))

\* The origin was not found, the destination was.
C7_Witness ==
    \E r \in Reqs :
        /\ req[r].error = "LocationNotFound"
        /\ req[r].origin = <<>>
        /\ req[r].destination # <<>>

----------------------------------------------------------------------------
\* Claims about the checkpoints (SpecInterp)

\* Request r has computed its result (it was not served from the cache).
Computed(r) == req[r].pc = "done" /\ ~req[r].hit

\* C8: the checkpoints of a resolved route have non-decreasing instants,
\* the first at the departure and the last at the departure plus the
\* route's duration.
C8_CheckpointInstants ==
    \A r \in Reqs :
        Computed(r) =>
            LET t == req[r].futureDates
                totalDuration == OrZero(req[r].routeData[1].duration)
            IN /\ t # <<>>
               /\ \A i, j \in 1..Len(t) : i <= j => t[i] <= t[j]
               /\ t[1] = req[r].departureDate
               /\ t[Len(t)] = req[r].departureDate + totalDuration * 1000

\* C9: a route with an empty path or with a duration of zero or less
\* gives exactly the one synthetic checkpoint: departure time, placeholder
\* name, unavailable weather.
C9_DegradedRouteIsSynthetic ==
    \A r \in Reqs :
        Computed(r) =>
            LET routeData == req[r].routeData[1]
            IN (\/ routeData.path = <<>>
                \/ routeData.path[1] = <<>>
                \/ OrZero(routeData.duration) <= 0) =>
                   req[r].checkpoints = <<SyntheticCheckpoint(req[r].departureDate)>>

\* C10: every result returned and every payload handed to the cache holds
\* at least one checkpoint.
C10_AtLeastOneCheckpoint ==
    /\ \A r \in Reqs :
          req[r].pc = "done" => Len(req[r].result[1].checkpoints) >= 1
    /\ \A i \in 1..Len(route_cache) : Len(route_cache[i].data.checkpoints) >= 1
    /\ \A i \in 1..Len(pendingInserts) : Len(pendingInserts[i].data.checkpoints) >= 1

----------------------------------------------------------------------------
\* Claims about the enrichment of the checkpoints (SpecInterp)

GoodWeather == CHOOSE res \in WeatherResponses : res.ok
GoodCity == CHOOSE res \in CityResponses : res.ok

\* The loop run to its end from the locals rec with every lookup answered.
RECURSIVE WithoutFailures(_)
WithoutFailures(rec) ==
    IF rec.pc = "weather"
    THEN WithoutFailures(
             PushAndAdvance([rec EXCEPT !.weather = _getWeather(GoodWeather)],
                            _getCityName(GoodCity), 0).rec)
    ELSE rec

\* What request r would have computed for its route had no lookup failed.
Reference(r) == WithoutFailures(_processCheckpoints(req[r], 0).rec)

PlaceholderWeather == [temp |-> "--", condition |-> _translateWMO(0)]

\* C11: a failed weather or city lookup never fails the request; whatever
\* lookups fail, the request computes as many checkpoints, at the same
\* instants, points and distances, as with no failure, and each checkpoint
\* carries the looked-up name or "Trajeto", the looked-up weather or the
\* temperature "--" with the label of code 0.
C11_EnrichmentFailuresNotFatal ==
    \A r \in Reqs :
        req[r].routeData # <<>> =>
            /\ req[r].error = "none"
            /\ req[r].pc \in {"weather", "cityDelay", "city", "done"}
            /\ Computed(r) =>
                  LET ref == Reference(r)
                      c == req[r].checkpoints
                  IN /\ req[r].futureDates = ref.futureDates
                     /\ Len(c) = Len(ref.checkpoints)
                     /\ \A i \in 1..Len(c) :
                           /\ c[i].formattedTime = ref.checkpoints[i].formattedTime
                           /\ c[i].point = ref.checkpoints[i].point
                           /\ c[i].distanceFromStart = ref.checkpoints[i].distanceFromStart
                           /\ c[i].locationName
                                  \in {ref.checkpoints[i].locationName, "Trajeto"}
                           /\ c[i].weather \in {ref.checkpoints[i].weather, PlaceholderWeather}

\* Three checkpoints: at the first the city lookup failed, at the second the
\* weather lookup, at the third both.
C11_Witness ==
    \E r \in Reqs :
        /\ Computed(r)
        /\ Len(req[r].checkpoints) = 3
        /\ req[r].checkpoints[1].locationName = "Trajeto"
        /\ req[r].checkpoints[1].weather # PlaceholderWeather
        /\ req[r].checkpoints[2].locationName # "Trajeto"
        /\ req[r].checkpoints[2].weather = PlaceholderWeather
        /\ req[r].checkpoints[3].locationName = "Trajeto"
        /\ req[r].checkpoints[3].weather = PlaceholderWeather

----------------------------------------------------------------------------
\* Claims about the cache insert (SpecStore)

\* C12: a failed INSERT never fails the request that issued it: a request
\* that has returned its computed result keeps it, unchanged, until the
\* response is sent, whatever becomes of its INSERT statement.
C12_InsertFailureNotFatal ==
    [][\A r \in Reqs :
          req[r].pc = "done" =>
              \/ req'[r] = req[r]
              \/ req'[r] = IdleReq]_vars

\* A request has returned its computed result, and its INSERT is neither
\* pending nor in the table: it failed.
C12_Witness ==
    \E r \in Reqs :
        /\ Computed(r)
        /\ req[r].result[1].checkpoints # <<>>
        /\ pendingInserts = <<>>
        /\ KeyRows(r) = {}

\* A step in which a lookup of the cache returns.
LookupStep == \E r \in Reqs : req[r].pc = "cache" /\ req'[r].pc # "cache"

\* C13: the rows of the table only grow in number: every step leaves the
\* existing rows as they are, in place, and a lookup leaves the whole table
\* as it is.
C13_CacheOnlyGrows ==
    [][/\ Len(route_cache') >= Len(route_cache)
       /\ SubSeq(route_cache', 1, Len(route_cache)) = route_cache
       /\ LookupStep => route_cache' = route_cache]_vars

\* Two rows of one key, written at different times, and a request served
\* from them.
C13_Witness ==
    \E r \in Reqs :
        /\ req[r].hit
        /\ \E i, j \in KeyRows(r) : route_cache[i].created_at < route_cache[j].created_at

----------------------------------------------------------------------------
\* Claims about termination (SpecLive)

\* Request r is running: it has started and has neither returned nor thrown.
Running(r) == req[r].pc \notin {"idle", "done", "failed"}

\* C14: every call to a collaborator is bounded by a timeout, so that a
\* request that has started always comes to an end, with a result or with
\* an error, even when a collaborator never answers.
C14_EveryRequestCompletes ==
    \A r \in Reqs : Running(r) ~> (req[r].pc \in {"done", "failed"})

----------------------------------------------------------------------------
\* Claims about the offsets and the path index (SpecInterp)

\* The offsets, in seconds from the departure, of the checkpoints of r.
Offsets(r) ==
    [i \in 1..Len(req[r].futureDates) |->
        (req[r].futureDates[i] - req[r].departureDate) \div 1000]

\* 0, I, 2I, ... for every multiple of the interval below D, then D.
ExpectedOffsets(D) ==
    LET below == (D - 1) \div CHECKPOINT_INTERVAL
    IN [i \in 1..(below + 2) |->
           IF i <= below + 1 THEN (i - 1) * CHECKPOINT_INTERVAL ELSE D]

\* The route of request r has a duration above zero and a non-empty path.
ProperRoute(r) ==
    /\ Computed(r)
    /\ OrZero(req[r].routeData[1].duration) > 0
    /\ req[r].routeData[1].path # <<>>
    /\ req[r].routeData[1].path[1] # <<>>

\* C15: for a route with a duration D above zero and a non-empty path the
\* checkpoints are at the offsets 0, I, 2I, ... below D and then at D,
\* each once.
C15_OffsetsEveryInterval ==
    \A r \in Reqs :
        ProperRoute(r) =>
            Offsets(r) = ExpectedOffsets(OrZero(req[r].routeData[1].duration))

\* Request r is inside an iteration of the loop of _processCheckpoints.
InIteration(r) == req[r].pc \in {"weather", "cityDelay", "city"}

\* C16: in every iteration of the loop the path index is between 0 and
\* the path length minus one; it is the last index when the offset has
\* reached the duration (progress 1) and 0 on a path of one point; so
\* every checkpoint lies on a point of the path, the one at the full
\* duration on the last point.
C16_PathIndexInRange ==
    \A r \in Reqs :
        /\ InIteration(r) =>
              LET totalDuration == OrZero(req[r].routeData[1].duration)
                  pathPoints == req[r].routeData[1].path[1]
                  pathIndex == PathIndex(req[r].timeOffset, totalDuration, Len(pathPoints))
              IN /\ pathIndex \in 0..(Len(pathPoints) - 1)
                 /\ (totalDuration > 0 /\ req[r].timeOffset = totalDuration) =>
                        pathIndex = Len(pathPoints) - 1
                 /\ Len(pathPoints) = 1 => pathIndex = 0
        /\ (req[r].routeData # <<>> /\ req[r].routeData[1].path # <<>>
               /\ req[r].routeData[1].path[1] # <<>>) =>
              LET totalDuration == OrZero(req[r].routeData[1].duration)
                  pathPoints == req[r].routeData[1].path[1]
                  c == req[r].checkpoints
              IN \A i \in 1..Len(c) :
                    /\ \E k \in 1..Len(pathPoints) : c[i].point = pathPoints[k]
                    /\ (totalDuration > 0 /\ Offsets(r)[i] = totalDuration) =>
                           c[i].point = pathPoints[Len(pathPoints)]

\* The checkpoints of a two-hour route lie on the first, the middle and the
\* last point of its three-point path.
C16_Witness ==
    \E r \in Reqs :
        /\ Computed(r)
        /\ req[r].routeData[1].path = Geometry(<<Rio, Resende, SaoPaulo>>)[1]
        /\ Len(req[r].checkpoints) = 3
        /\ req[r].checkpoints[1].point = Rio
        /\ req[r].checkpoints[2].point = Resende
        /\ req[r].checkpoints[3].point = SaoPaulo

----------------------------------------------------------------------------
\* Claims about the reuse of a stored result (SpecReuse)

\* The step in which request r returns the result it has computed.
ComputeStep(r) == req[r].pc # "done" /\ req'[r].pc = "done" /\ ~req'[r].hit

\* The step in which the lookup of request r returns.
LookupReturns(r) == req[r].pc = "cache" /\ req'[r].pc # "cache"

\* The rows of the key of r that are younger than the TTL.
FreshKeyRows(r) == {i \in KeyRows(r) : now - route_cache[i].created_at < CACHE_TTL}

----------------------------------------------------------------------------
\* Claims about the normalization of the texts (SpecKey)

\* Request r has been through the normalization of lines 63-64.
Normalized(r) == req[r].pc = "cache"

\* C18: normalizing a normalized text changes nothing, and two texts that
\* differ only in the case of their letters or in the whitespace around
\* them have the same normalized text.
C18_NormalizeIdempotent ==
    \A r1, r2 \in Reqs :
        (Normalized(r1) /\ Normalized(r2)) =>
            /\ Normalize(req[r1].normOrigin) = req[r1].normOrigin
            /\ Normalize(req[r1].normDest) = req[r1].normDest
            /\ TrimmedLower(req[r1].originText) = TrimmedLower(req[r2].originText)
                  => req[r1].normOrigin = req[r2].normOrigin
            /\ TrimmedLower(req[r1].destinationText) = TrimmedLower(req[r2].destinationText)
                  => req[r1].normDest = req[r2].normDest

\* " sp " and "SP" as origins, "RJ" and "rj " as destinations: different
\* texts, none of them in normal form, with equal normalized texts.
C18_Witness ==
    \E r1, r2 \in Reqs :
        /\ Normalized(r1) /\ Normalized(r2)
        /\ req[r1].originText = <<" ", "s", "p", " ">>
        /\ req[r2].originText = <<"S", "P">>
        /\ req[r1].destinationText = <<"R", "J">>
        /\ req[r2].destinationText = <<"r", "j", " ">>
        /\ req[r1].normOrigin = req[r2].normOrigin
        /\ req[r1].normDest = req[r2].normDest

----------------------------------------------------------------------------
\* Claims about the weather labels (SpecWMO)

\* Request r has just pushed a checkpoint of the loop: its local weather
\* is still the answer the checkpoint was built from.
JustPushed(r) ==
    /\ req[r].pc \in {"weather", "done"}
    /\ ~req[r].hit
    /\ req[r].checkpoints # <<>>
    /\ req[r].checkpoints # <<SyntheticCheckpoint(req[r].departureDate)>>

\* C19: the label of a checkpoint is the table's label of the weather code
\* for every code of the table, code 0 included, and the generic label
\* carrying the code for every other code; a label is always produced.
C19_TranslateTotal ==
    \A r \in Reqs :
        JustPushed(r) =>
            LET code == req[r].weather.code
                label == req[r].checkpoints[Len(req[r].checkpoints)].weather.condition
            IN /\ code \in KnownCodes => label = <<"table", code>>
               /\ code \notin KnownCodes => label = <<"Clima", code>>
               /\ label[1] \in {"table", "Clima"}

\* A result whose first checkpoint has the table's label of the code 0 the
\* weather service answered, and whose second has the generic label of 99.
C19_Witness ==
    \E r \in Reqs :
        /\ Computed(r)
        /\ Len(req[r].checkpoints) = 2
        /\ req[r].checkpoints[1].weather = [temp |-> "21", condition |-> <<"table", 0>>]
        /\ req[r].checkpoints[2].weather = [temp |-> "21", condition |-> <<"Clima", 99>>]

----------------------------------------------------------------------------
\* Claims about the providers that are not configured (Spec)

Called(r, name) == \E k \in 1..Len(req[r].calls) : req[r].calls[k] = name

\* The cascade of request r is past provider number k without a route.
Past(r, k) ==
    /\ Len(req[r].attempts) >= k
    /\ req[r].attempts[k].outcome \in {"failed", "skipped"}

\* C20: a provider without its key or token is never called, and is
\* recorded as skipped; after it the cascade goes on as after a failure:
\* past GraphHopper, Mapbox is called if it has a token, and past the last
\* provider the request fails with RouteUnavailable.
C20_UnconfiguredIsSkipped ==
    \A r \in Reqs :
        /\ ~GRAPHHOPPER_KEY => ~Called(r, "GraphHopper")
        /\ ~MAPBOX_TOKEN => ~Called(r, "Mapbox")
        /\ \A k \in 1..Len(req[r].attempts) :
              req[r].attempts[k].outcome = "skipped" <=>
                  \/ req[r].attempts[k].provider = "GraphHopper" /\ ~GRAPHHOPPER_KEY
                  \/ req[r].attempts[k].provider = "Mapbox" /\ ~MAPBOX_TOKEN
        /\ Past(r, 1) =>
              \/ GRAPHHOPPER_KEY /\ Called(r, "GraphHopper")
              \/ ~GRAPHHOPPER_KEY /\ Past(r, 2)
        /\ Past(r, 2) =>
              \/ MAPBOX_TOKEN /\ Called(r, "Mapbox")
              \/ ~MAPBOX_TOKEN /\ Past(r, 3)
        /\ Past(r, 3) => req[r].error = "RouteUnavailable"

\* Without a GraphHopper key and with a Mapbox token: OSRM failed,
\* GraphHopper was skipped without a call, Mapbox gave the route.
C20_Witness ==
    \E r \in Reqs :
        /\ ~GRAPHHOPPER_KEY /\ MAPBOX_TOKEN
        /\ req[r].pc = "done"
        /\ req[r].attempts = << [provider |-> "OSRM", outcome |-> "failed"],
                                [provider |-> "GraphHopper", outcome |-> "skipped"],
                                [provider |-> "Mapbox", outcome |-> "ok"] >>
        /\ Invoked(r) = <<"OSRM", "Mapbox">>

----------------------------------------------------------------------------
\* Claims about retries (Spec)

\* The number of calls request r has made to the collaborator name.
TimesCalled(r, name) == Len(SelectSeq(req[r].calls, LAMBDA c : c = name))

\* The number of entries provider p has in the log of the cascade of r.
TimesAttempted(r, p) == Len(SelectSeq(req[r].attempts, LAMBDA a : a.provider = p))

\* C21: within one request no routing provider is called more than once
\* and none has more than one attempt, whatever fails.
C21_NoProviderRetry ==
    \A r \in Reqs : \A p \in Providers :
        /\ TimesCalled(r, p) <= 1
        /\ TimesAttempted(r, p) <= 1

\* OSRM and GraphHopper failed and Mapbox gave the route: three calls, one
\* to each provider.
C21_Witness ==
    \E r \in Reqs :
        /\ req[r].pc = "done"
        /\ Invoked(r) = <<"OSRM", "GraphHopper", "Mapbox">>
        /\ req[r].result[1].provider = "Mapbox"

----------------------------------------------------------------------------
\* Claims about the order of the calls of one request (SpecInterp)

\* The call request r is waiting for; <<>> when it waits for none (it is
\* idle, has ended, or waits for the timer of line 191).
Outstanding(r) ==
    CASE req[r].pc = "cache" -> <<"db.get">>
      [] req[r].pc \in {"geoOrigin", "geoDest"} -> <<"forward">>
      [] req[r].pc = "osrm" -> <<"OSRM">>
      [] req[r].pc = "graphhopper" -> <<"GraphHopper">>
      [] req[r].pc = "mapbox" -> <<"Mapbox">>
      [] req[r].pc = "weather" -> <<"weather">>
      [] req[r].pc = "city" -> <<"reverse">>
      [] OTHER -> <<>>

\* The calls of a request in the order of the pipeline: the lookup, the
\* two forward geocodings, the providers, then weather and reverse
\* geocoding in turn, and the insert last, after a whole checkpoint.
InPipelineOrder(c) ==
    LET np == Len(SelectSeq(c, IsProvider))
    IN \A i \in 1..Len(c) :
          /\ i = 1 => c[i] = "db.get"
          /\ i \in 2..3 => c[i] = "forward"
          /\ i \in 4..(3 + np) => IsProvider(c[i])
          /\ i > 3 + np =>
                \/ c[i] = "db.run" /\ i = Len(c) /\ (i - 3 - np) % 2 = 1
                \/ c[i] = (IF (i - 3 - np) % 2 = 1 THEN "weather" ELSE "reverse")

\* C22: a request makes its calls one at a time and in the order of the
\* pipeline. The only call that can be outstanding is the last one it
\* issued, so every earlier call has completed; and the weather call of a
\* checkpoint is issued only when the checkpoints before it are complete.
C22_StrictlySequential ==
    \A r \in Reqs :
        LET c == req[r].calls
        IN /\ InPipelineOrder(c)
           /\ Outstanding(r) # <<>> => (c # <<>> /\ c[Len(c)] = Outstanding(r)[1])
           /\ req[r].pc = "cityDelay" => c[Len(c)] = "weather"
           /\ InIteration(r) =>
                 /\ TimesCalled(r, "weather") = Len(req[r].checkpoints) + 1
                 /\ TimesCalled(r, "reverse")
                        = Len(req[r].checkpoints) + (IF req[r].pc = "city" THEN 1 ELSE 0)
           /\ (Computed(r) /\ TimesCalled(r, "weather") > 0) =>
                 /\ TimesCalled(r, "weather") = Len(req[r].checkpoints)
                 /\ TimesCalled(r, "reverse") = Len(req[r].checkpoints)

\* A request waits for the weather of its third checkpoint after OSRM
\* failed and GraphHopper gave the route.
C22_Witness ==
    \E r \in Reqs :
        /\ req[r].pc = "weather"
        /\ req[r].calls = <<"db.get", "forward", "forward", "OSRM", "GraphHopper",
                            "weather", "reverse", "weather", "reverse", "weather">>
        /\ Len(req[r].checkpoints) = 2

----------------------------------------------------------------------------
\* Claims about concurrent requests (SpecCache)

\* The result request r assembles from its own locals (lines 82-88).
OwnResult(rec) ==
    [routeGeo |-> rec.routeData[1].path,
     checkpoints |-> rec.checkpoints,
     provider |-> rec.routeData[1].provider,
     distanceTotal |-> rec.routeData[1].distance,
     durationTotal |-> rec.routeData[1].duration]

\* C23: requests of one key that miss together are not deduplicated. A
\* lookup that finds no row of its key is a miss whatever other requests
\* are computing; a step of one request leaves the locals of the others
\* alone; a request that computes returns the result of its own route and
\* checkpoints and hands one insert of it to the store; a row enters the
\* table whole, as it was handed over; and a hit returns the data of one
\* row of the key.
C23_NoDeduplication ==
    [][/\ \A r \in Reqs :
             /\ (LookupReturns(r) /\ KeyRows(r) = {}) =>
                   (~req'[r].hit /\ req'[r].pc = "geoOrigin")
             /\ req'[r] # req[r] => \A q \in Reqs \ {r} : req'[q] = req[q]
             /\ ComputeStep(r) =>
                   /\ req'[r].result = <<OwnResult(req'[r])>>
                   /\ Len(pendingInserts') = Len(pendingInserts) + 1
                   /\ pendingInserts'[Len(pendingInserts')].data
                          = JsonRoundTrip(OwnResult(req'[r]))
             /\ HitStep(r) =>
                   \E i \in KeyRows(r) : req'[r].result = <<route_cache[i].data>>
       /\ Len(route_cache') > Len(route_cache) =>
             \E i \in 1..Len(pendingInserts) :
                 route_cache' = Append(route_cache, pendingInserts[i])]_vars

\* Two requests of one key have both computed, with different results, and
\* the table holds the row of each.
C23_Witness ==
    \E r1, r2 \in Reqs :
        /\ Computed(r1) /\ Computed(r2)
        /\ req[r1].normOrigin = req[r2].normOrigin
        /\ req[r1].normDest = req[r2].normDest
        /\ req[r1].departureIsoKey = req[r2].departureIsoKey
        /\ req[r1].result # req[r2].result
        /\ \E i, j \in KeyRows(r1) :
               /\ i # j
               /\ <<route_cache[i].data>> = req[r1].result
               /\ <<route_cache[j].data>> = req[r2].result

----------------------------------------------------------------------------
\* Claims about requests of different keys (SpecFrame)

\* What the lookup of the key (origin, dest, dateKey) can return from table.
LookupResults(table, origin, dest, dateKey) ==
    {table[i].data : i \in _checkCacheRows(table, origin, dest, dateKey)}

\* Row and request r have the same key.
RowOfKey(row, r) ==
    /\ row.origin_text = req[r].normOrigin
    /\ row.dest_text = req[r].normDest
    /\ row.trip_date = req[r].departureIsoKey

\* C24: an insert under one key changes nothing for the lookups of another
\* key: in a step that adds a row, the lookup of every request whose key
\* is not the key of the new row can return after the step exactly what it
\* could return before it.
C24_OtherKeysUntouched ==
    [][Len(route_cache') > Len(route_cache) =>
          \A r \in Reqs :
              ~RowOfKey(route_cache'[Len(route_cache')], r) =>
                  LookupResults(route_cache', req[r].normOrigin, req[r].normDest,
                                req[r].departureIsoKey)
                      = LookupResults(route_cache, req[r].normOrigin, req[r].normDest,
                                      req[r].departureIsoKey)]_vars

\* A lookup is pending for a key that has no row, while the table holds a
\* row that differs from the key in the origin only and a row that differs
\* from it in the hour only.
C24_Witness ==
    \E r \in Reqs :
        /\ req[r].pc = "cache"
        /\ KeyRows(r) = {}
        /\ \E i, j \in 1..Len(route_cache) :
               /\ route_cache[i].origin_text # req[r].normOrigin
               /\ route_cache[i].trip_date = req[r].departureIsoKey
               /\ route_cache[j].origin_text = req[r].normOrigin
               /\ route_cache[j].trip_date # req[r].departureIsoKey

----------------------------------------------------------------------------
\* Claims about the distance from the start (SpecInterp)

\* floor(totalDistance * (offset / D) / 1000), by repeated subtraction.
RECURSIVE FloorQuotient(_, _)
FloorQuotient(a, b) == IF a < b THEN 0 ELSE 1 + FloorQuotient(a - b, b)

\* The distances from the start of the checkpoints of request r.
Distances(r) ==
    [i \in 1..Len(req[r].checkpoints) |-> req[r].checkpoints[i].distanceFromStart]

\* C25: on a route with a duration D above zero and a non-empty path
\* every checkpoint has the distance floor(totalDistance * offset / D / 1000),
\* and along the checkpoints the distances are integers from 0 up, never
\* decreasing, 0 at the first checkpoint and floor(totalDistance / 1000)
\* at the last.
C25_DistanceFromStart ==
    \A r \in Reqs :
        (ProperRoute(r) /\ req[r].checkpoints # <<>>) =>
            LET D == OrZero(req[r].routeData[1].duration)
                totalDistance == OrZero(req[r].routeData[1].distance)
                km == Distances(r)
            IN /\ \A i \in 1..Len(km) :
                      /\ km[i] \in Nat
                      /\ km[i] = FloorQuotient(totalDistance * Offsets(r)[i], 1000 * D)
               /\ \A i \in 1..(Len(km) - 1) : km[i] <= km[i + 1]
               /\ km[1] = 0
               /\ km[Len(km)] = totalDistance \div 1000

\* Every element of the path of request r is a point.
WithoutHoles(r) ==
    \A i \in 1..Len(req[r].routeData[1].path[1]) :
        req[r].routeData[1].path[1][i] # Hole

\* The same for the paths all of whose elements are points.
C25_DistanceFromStartOnPoints ==
    \A r \in Reqs :
        (ProperRoute(r) /\ WithoutHoles(r)) =>
            LET D == OrZero(req[r].routeData[1].duration)
                totalDistance == OrZero(req[r].routeData[1].distance)
                km == Distances(r)
            IN /\ Len(km) >= 2
               /\ \A i \in 1..Len(km) :
                      /\ km[i] \in Nat
                      /\ km[i] = FloorQuotient(totalDistance * Offsets(r)[i], 1000 * D)
               /\ \A i \in 1..(Len(km) - 1) : km[i] <= km[i + 1]
               /\ km[1] = 0
               /\ km[Len(km)] = totalDistance \div 1000

----------------------------------------------------------------------------
\* Claims about the route adapters (SpecInterp)

\* x is a number that is not negative.
NonNegative(x) == x.t = "num" /\ x.n >= 0

\* C26: the route a provider adapter returns has a path of at least one
\* point, a duration and a distance that are numbers not below zero; a
\* response without these is the failure of that provider.
C26_SuccessIsWellFormed ==
    \A r \in Reqs :
        req[r].routeData # <<>> =>
            LET routeData == req[r].routeData[1]
            IN /\ routeData.path # <<>>
               /\ Len(routeData.path[1]) >= 1
               /\ NonNegative(routeData.duration)
               /\ NonNegative(routeData.distance)

----------------------------------------------------------------------------
\* Claims about the delay before the reverse geocoding (SpecInterp)

\* C27: every reverse geocoding call of a request is issued after a wait
\* of the fixed delay that began after the call before it, so the first
\* call comes no sooner than one delay after the request began and every
\* later call no sooner than one delay after the call before it.
C27_DelayBeforeReverse ==
    \A r \in Reqs :
        LET at == req[r].reverseAt
        IN /\ Len(at) = TimesCalled(r, "reverse")
           /\ \A i \in 1..Len(at) :
                  at[i] >= CITY_DELAY + (IF i = 1 THEN 0 ELSE at[i - 1])

\* A request has issued its third reverse geocoding call.
C27_Witness ==
    \E r \in Reqs : req[r].pc = "city" /\ Len(req[r].reverseAt) = 3

----------------------------------------------------------------------------
\* Claims about the end of the interpolation loop (SpecInterpLive)

\* ceil(D / CHECKPOINT_INTERVAL) + 1
MaxIterations(D) == (D + CHECKPOINT_INTERVAL - 1) \div CHECKPOINT_INTERVAL + 1

\* The route of request r has a non-empty path: the loop is entered.
LoopEntered(r) ==
    /\ req[r].routeData # <<>>
    /\ req[r].routeData[1].path # <<>>
    /\ req[r].routeData[1].path[1] # <<>>

\* The loop of request r was left on line 240, in an iteration that
\* pushed no checkpoint.
LeftOnMissingPoint(r) ==
    /\ Computed(r)
    /\ req[r].timeOffset <= OrZero(req[r].routeData[1].duration)
    /\ \/ req[r].checkpoints = <<>>
       \/ Offsets(r)[Len(req[r].checkpoints)] # req[r].timeOffset

\* The iterations of the loop request r has begun.
Iterations(r) ==
    Len(req[r].checkpoints)
        + (IF InIteration(r) \/ LeftOnMissingPoint(r) THEN 1 ELSE 0)

\* C28: when the enrichment calls return, the loop over a non-empty path
\* ends: an iteration that does not leave the loop begins the next one at
\* a larger offset, the iteration whose offset has reached D leaves it,
\* no iteration begins beyond D, and there are at most ceil(D / 3600) + 1
\* iterations.
C28_LoopTerminates ==
    /\ [](\A r \in Reqs :
             LoopEntered(r) =>
                 LET D == OrZero(req[r].routeData[1].duration)
                 IN /\ Iterations(r) <= MaxIterations(D)
                    /\ InIteration(r) => req[r].timeOffset <= D)
    /\ [][\A r \in Reqs :
             (req[r].pc = "city" /\ req'[r] # req[r]) =>
                 LET D == OrZero(req[r].routeData[1].duration)
                 IN IF req[r].timeOffset >= D
                    THEN req'[r].pc = "done"
                    ELSE req'[r].timeOffset > req[r].timeOffset]_vars
    /\ \A r \in Reqs : InIteration(r) ~> (req[r].pc = "done")

\* The loop over a path of three points has ended after three iterations,
\* the most a duration of two intervals allows.
C28_Witness ==
    \E r \in Reqs :
        /\ Computed(r)
        /\ LoopEntered(r)
        /\ OrZero(req[r].routeData[1].duration) = 2 * CHECKPOINT_INTERVAL
        /\ Iterations(r) = 3
        /\ ~LeftOnMissingPoint(r)

----------------------------------------------------------------------------
\* Claims about failed requests and the cache (SpecCache)

\* C29: a request that fails hands no INSERT to the store, in the step in
\* which it fails or before it, and that step leaves the table as it was;
\* the request that hands over an INSERT has both coordinates, a route and
\* its checkpoints, and is returning the result it stores.
C29_FailureLeavesCacheUnchanged ==
    /\ [](\A r \in Reqs : req[r].pc = "failed" => ~Called(r, "db.run"))
    /\ [][\A r \in Reqs :
             /\ (req[r].pc # "failed" /\ req'[r].pc = "failed") =>
                    /\ route_cache' = route_cache
                    /\ pendingInserts' = pendingInserts
             /\ (req'[r] # req[r] /\ Len(pendingInserts') > Len(pendingInserts)) =>
                    /\ req'[r].pc = "done"
                    /\ req'[r].error = "none"
                    /\ req'[r].origin # <<>>
                    /\ req'[r].destination # <<>>
                    /\ req'[r].routeData # <<>>
                    /\ pendingInserts'[Len(pendingInserts')].origin_text
                           = req'[r].normOrigin
                    /\ pendingInserts'[Len(pendingInserts')].dest_text
                           = req'[r].normDest
                    /\ pendingInserts'[Len(pendingInserts')].trip_date
                           = req'[r].departureIsoKey
                    /\ pendingInserts'[Len(pendingInserts')].data
                           = JsonRoundTrip(req'[r].result[1])
                    /\ req'[r].result[1].checkpoints = req'[r].checkpoints]_vars

\* A request has failed for want of a route while the table holds the
\* entry of an earlier request and no INSERT is pending.
C29_Witness ==
    \E r \in Reqs :
        /\ req[r].pc = "failed"
        /\ req[r].error = "RouteUnavailable"
        /\ Len(route_cache) = 1
        /\ pendingInserts = <<>>

----------------------------------------------------------------------------
\* Claims about a lookup that fails (SpecCache)

\* C30: when db.get reports an error the request goes on as after a miss,
\* whatever the table holds: it does not fail in that step and returns no
\* entry, it calls the geocoder next, and from there on it fails only as a
\* computation can fail and otherwise computes and stores its result.
C30_LookupErrorIsMiss ==
    /\ [][\A r \in Reqs :
             (req[r].pc = "cache" /\ req'[r].lookup = "error") =>
                 /\ req'[r].pc = "geoOrigin"
                 /\ req'[r].error = "none"
                 /\ ~req'[r].hit
                 /\ req'[r].result = <<>>
                 /\ req'[r].calls = Append(req[r].calls, "forward")
                 /\ pendingInserts' = pendingInserts]_vars
    /\ [](\A r \in Reqs :
             req[r].lookup = "error" =>
                 /\ ~req[r].hit
                 /\ req[r].pc = "failed" =>
                        req[r].error \in {"LocationNotFound", "RouteUnavailable"}
                 /\ req[r].pc = "done" =>
                        /\ Called(r, "db.run")
                        /\ req[r].result[1].checkpoints = req[r].checkpoints)

\* A request whose lookup failed has computed its result and stored it
\* next to another entry of its key.
C30_Witness ==
    \E r \in Reqs :
        /\ Computed(r)
        /\ req[r].lookup = "error"
        /\ pendingInserts = <<>>
        /\ Cardinality(KeyRows(r)) = 2

----------------------------------------------------------------------------
\* Claims about degraded results in the cache (SpecDegraded)

\* The result data has a checkpoint with a placeholder: the weather that is
\* not available, the place name of a failed lookup, or the synthetic
\* checkpoint of an empty path.
Degraded(data) ==
    \E i \in 1..Len(data.checkpoints) :
        \/ data.checkpoints[i].weather.temp = "--"
        \/ data.checkpoints[i].locationName \in {"Trajeto", "Local de Partida"}

\* C31, as stated: a degraded result that is in the cache is what every
\* later hit on its key returns.
C31_DegradedResultAlwaysReturned ==
    [][\A r \in Reqs :
          HitStep(r) =>
              \A i \in KeyRows(r) :
                  Degraded(route_cache[i].data) =>
                      req'[r].result = <<route_cache[i].data>>]_vars

\* C31, amended: a request that computes a degraded result hands to the
\* store, under its own key, an insert of that result as JSON writes it; a
\* lookup that finds rows of its key is a hit, degraded or not, and the hit
\* returns the data of one of these rows as stored, calls no collaborator
\* and stores nothing; a request served from the cache has made no weather
\* and no reverse geocoding call.
C31_DegradedResultIsCached ==
    /\ [][\A r \in Reqs :
             /\ (ComputeStep(r) /\ Degraded(req'[r].result[1])) =>
                    pendingInserts' =
                        Append(pendingInserts,
                               [origin_text |-> req'[r].normOrigin,
                                dest_text |-> req'[r].normDest,
                                trip_date |-> req'[r].departureIsoKey,
                                data |-> JsonRoundTrip(req'[r].result[1]),
                                created_at |-> now])
             /\ (LookupReturns(r) /\ KeyRows(r) # {}) => HitStep(r)
             /\ HitStep(r) =>
                    /\ \E i \in KeyRows(r) : req'[r].result = <<route_cache[i].data>>
                    /\ req'[r].calls = req[r].calls
                    /\ req'[r].pc = "done"
                    /\ pendingInserts' = pendingInserts
                    /\ route_cache' = route_cache]_vars
    /\ [](\A r \in Reqs :
             req[r].hit =>
                 /\ req[r].calls = <<"db.get">>
                 /\ req[r].checkpoints = <<>>)

\* A request has been served from the cache with the result of the
\* synthetic checkpoint while another entry of the table carries a
\* placeholder name and the unavailable weather.
C31_Witness ==
    \E r \in Reqs :
        /\ req[r].hit
        /\ Len(req[r].result[1].checkpoints) = 1
        /\ req[r].result[1].checkpoints[1].locationName = "Local de Partida"
        /\ \E i \in 1..Len(route_cache) :
               /\ route_cache[i].data.checkpoints # <<>>
               /\ route_cache[i].data.checkpoints[1].locationName = "Trajeto"
               /\ route_cache[i].data.checkpoints[1].weather.temp = "--"

====
